---------------------------- MODULE Spec2Model ----------------------------
(***************************************************************************)
(* Model of extractor.py: the invoice extraction pipeline                  *)
(* (extract_invoice) and its Response Normalizer (ensure_all_fields,       *)
(* postprocess_all, normalize_date).                                       *)
(*                                                                         *)
(* Representation.                                                         *)
(*  - A Python str is a sequence of one-character strings.                 *)
(*  - A parsed JSON value is a tagged record: JNull, JInt(n), JFloat(n),   *)
(*    JBool(b), JStr(s), JList(xs), JDict(m) with m a function from keys   *)
(*    to values.                                                           *)
(*  - A schema field name is the sequence of its "_"-separated words       *)
(*    (order_id is <<"order", "id">>).  The two field-name patterns        *)
(*    _DATE_FIELDS and _NUMERIC_HINT are only ever applied to schema       *)
(*    field names, and on each of the 99 schema names every alternative    *)
(*    that matches as a suffix matches at a word boundary, so the suffix   *)
(*    test on words is the regular-expression search on characters.  All   *)
(*    schema names are lower case, so re.I changes nothing on them.        *)
(*  - The raw model response is a sequence of lexical tokens: a fence      *)
(*    marker, the tag json, a whitespace character, a complete JSON text,  *)
(*    or text that is not JSON.                                            *)
(***************************************************************************)
EXTENDS Integers, Sequences, FiniteSets, TLC

VARIABLES
  pc,            \* position in extract_invoice
  provider,      \* cfg.provider
  use_vision,    \* use_vision_if_needed
  pad_year,      \* whether the C library's strftime zero-pads %Y to 4 digits
  pages,         \* per-page text lengths returned by extract_text_with_pymupdf
  text_ok,       \* avg_len > 300
  mode,          \* "none", "text" or "vision": which messages were built
  rasterized,    \* pdf_to_b64_images was called
  invokes,       \* number of calls of llm.invoke
  parses,        \* number of calls of json.loads
  raw,           \* the raw model response
  parsed,        \* the value handed to the normalizer
  shaped,        \* the local variable shaped
  error          \* "none", or which call raised

vars == <<pc, provider, use_vision, pad_year, pages, text_ok, mode, rasterized,
          invokes, parses, raw, parsed, shaped, error>>

(***************************************************************************)
(* Bounds of the model.                                                    *)
(***************************************************************************)
\* Longest run of whitespace put around a field value.
MaxPad == 1
\* Largest number of sections in a generated multi-section model output.
MaxSections == 2
\* Largest number of pages of a document.
MaxPages == 2
\* Longest freely generated raw response, in tokens.
MaxRawLen == 2

(***************************************************************************)
(* Characters and Python str helpers.                                      *)
(***************************************************************************)
Digits == {"0", "1", "2", "3", "4", "5", "6", "7", "8", "9"}

DigitVal ==
  ("0" :> 0) @@ ("1" :> 1) @@ ("2" :> 2) @@ ("3" :> 3) @@ ("4" :> 4) @@
  ("5" :> 5) @@ ("6" :> 6) @@ ("7" :> 7) @@ ("8" :> 8) @@ ("9" :> 9)

DigitChar == <<"0", "1", "2", "3", "4", "5", "6", "7", "8", "9">>

\* Characters str.strip() and the regular expression \s treat as whitespace.
Whitespace == {" ", "\n", "\t"}

\* Number of leading characters of s that lie in S.
LeadCount(s, S) ==
  CHOOSE n \in 0..Len(s) :
    /\ \A i \in 1..n : s[i] \in S
    /\ (n = Len(s) \/ s[n + 1] \notin S)

\* Number of trailing characters of s that lie in S.
TrailCount(s, S) ==
  CHOOSE n \in 0..Len(s) :
    /\ \A i \in (Len(s) - n + 1)..Len(s) : s[i] \in S
    /\ (n = Len(s) \/ s[Len(s) - n] \notin S)

\* str.strip()
Strip(s) ==
  LET a == LeadCount(s, Whitespace)
      b == TrailCount(s, Whitespace)
  IN  IF a = Len(s) THEN <<>> ELSE SubSeq(s, a + 1, Len(s) - b)

\* str.replace(c, "") for a one-character c
RECURSIVE Remove(_, _)
Remove(s, c) ==
  IF s = <<>> THEN <<>>
  ELSE IF Head(s) = c THEN Remove(Tail(s), c)
  ELSE <<Head(s)>> \o Remove(Tail(s), c)

\* str.lower() on the letters that month abbreviations use
Lower(c) ==
  CASE c = "A" -> "a" [] c = "D" -> "d" [] c = "F" -> "f" [] c = "J" -> "j"
    [] c = "M" -> "m" [] c = "N" -> "n" [] c = "O" -> "o" [] c = "S" -> "s"
    [] c = "B" -> "b" [] c = "C" -> "c" [] c = "E" -> "e" [] c = "G" -> "g"
    [] c = "L" -> "l" [] c = "P" -> "p" [] c = "R" -> "r" [] c = "T" -> "t"
    [] c = "U" -> "u" [] c = "V" -> "v" [] c = "Y" -> "y"
    [] OTHER -> c

\* The decimal numeral of a natural number, without padding: str(n)
RECURSIVE IntToStr(_)
IntToStr(n) ==
  IF n < 10 THEN <<DigitChar[n + 1]>>
  ELSE IntToStr(n \div 10) \o <<DigitChar[(n % 10) + 1]>>

\* The numeral of n zero-padded to at least w characters
RECURSIVE ZeroPad(_, _)
ZeroPad(s, w) == IF Len(s) >= w THEN s ELSE ZeroPad(<<"0">> \o s, w)

\* int() of a string of digits
RECURSIVE StrToInt(_)
StrToInt(s) ==
  IF s = <<>> THEN 0
  ELSE 10 * StrToInt(SubSeq(s, 1, Len(s) - 1)) + DigitVal[s[Len(s)]]

IsDigits(s) == \A i \in 1..Len(s) : s[i] \in Digits

\* str.split(c) for a one-character c
RECURSIVE Split(_, _)
Split(s, c) ==
  LET n == LeadCount(s, {x \in {s[i] : i \in 1..Len(s)} : x # c})
  IN  IF n = Len(s) THEN <<s>>
      ELSE <<SubSeq(s, 1, n)>> \o Split(SubSeq(s, n + 2, Len(s)), c)

(***************************************************************************)
(* datetime.strptime / strftime, as normalize_date uses them.              *)
(***************************************************************************)
\* The locale's abbreviated month names (%b), lower-cased as _strptime keeps them.
Months ==
  << <<"j", "a", "n">>, <<"f", "e", "b">>, <<"m", "a", "r">>, <<"a", "p", "r">>,
     <<"m", "a", "y">>, <<"j", "u", "n">>, <<"j", "u", "l">>, <<"a", "u", "g">>,
     <<"s", "e", "p">>, <<"o", "c", "t">>, <<"n", "o", "v">>, <<"d", "e", "c">> >>

\* The month a %b directive reads from s (matched ignoring case), or 0.
MonthIndex(s) ==
  LET low == [i \in 1..Len(s) |-> Lower(s[i])]
      hit == {i \in 1..12 : Months[i] = low}
  IN  IF hit = {} THEN 0 ELSE CHOOSE i \in hit : TRUE

\* %Y: \d\d\d\d
YearTok(t) == Len(t) = 4 /\ IsDigits(t)

\* %m: 1[0-2]|0[1-9]|[1-9]
MonthTok(t) ==
  /\ Len(t) \in 1..2
  /\ IsDigits(t)
  /\ StrToInt(t) \in 1..12

\* %d: 3[0-1]|[1-2]\d|0[1-9]|[1-9]| [1-9]
DayTok(t) ==
  \/ /\ Len(t) \in 1..2
     /\ IsDigits(t)
     /\ StrToInt(t) \in 1..31
  \/ /\ Len(t) = 2
     /\ t[1] = " "
     /\ t[2] \in Digits \ {"0"}

DayVal(t) == IF t[1] = " " THEN DigitVal[t[2]] ELSE StrToInt(t)

IsLeap(y) == (y % 4 = 0 /\ y % 100 # 0) \/ y % 400 = 0

DaysInMonth(y, m) ==
  IF m = 2 THEN (IF IsLeap(y) THEN 29 ELSE 28)
  ELSE IF m \in {4, 6, 9, 11} THEN 30 ELSE 31

NoDate == [ok |-> FALSE, y |-> 0, m |-> 0, d |-> 0]

\* datetime(y, m, d): a ValueError (NoDate) unless the date exists in years 1..9999.
MkDate(y, m, d) ==
  IF y \in 1..9999 /\ m \in 1..12 /\ d \in 1..DaysInMonth(y, m)
  THEN [ok |-> TRUE, y |-> y, m |-> m, d |-> d]
  ELSE NoDate

\* The formats of normalize_date, in the order it tries them.  "split" formats
\* are three numeric directives joined by one separator character.
fmts ==
  << [kind |-> "split", sep |-> "-", order |-> <<"Y", "m", "d">>],   \* %Y-%m-%d
     [kind |-> "split", sep |-> "/", order |-> <<"m", "d", "Y">>],   \* %m/%d/%Y
     [kind |-> "split", sep |-> "/", order |-> <<"d", "m", "Y">>],   \* %d/%m/%Y
     [kind |-> "split", sep |-> "-", order |-> <<"m", "d", "Y">>],   \* %m-%d-%Y
     [kind |-> "split", sep |-> "-", order |-> <<"d", "m", "Y">>],   \* %d-%m-%Y
     [kind |-> "bdY",   sep |-> ",", order |-> <<"b", "d", "Y">>],   \* %b %d, %Y
     [kind |-> "dbY",   sep |-> " ", order |-> <<"d", "b", "Y">>] >> \* %d %b %Y

TokOk(dir, t) ==
  CASE dir = "Y" -> YearTok(t)
    [] dir = "m" -> MonthTok(t)
    [] dir = "d" -> DayTok(t)

\* The part of s (split at the separator) that directive dir reads.
PartOf(parts, order, dir) ==
  parts[CHOOSE i \in 1..3 : order[i] = dir]

\* strptime with a numeric format: the directives hold no separator character,
\* so the whole string matches exactly when it splits into three parts that
\* each match their directive.
ParseSplit(s, f) ==
  LET parts == Split(s, f.sep)
  IN  IF /\ Len(parts) = 3
         /\ \A i \in 1..3 : TokOk(f.order[i], parts[i])
      THEN MkDate(StrToInt(PartOf(parts, f.order, "Y")),
                  StrToInt(PartOf(parts, f.order, "m")),
                  DayVal(PartOf(parts, f.order, "d")))
      ELSE NoDate

\* strptime(s, "%b %d, %Y"): month name, \s+, day, a comma, \s+, year.
ParseBdY(s) ==
  LET r1 == SubSeq(s, 4, Len(s))
      w1 == LeadCount(r1, Whitespace)
      r2 == SubSeq(r1, w1 + 1, Len(r1))
      nd == LeadCount(r2, Digits)
      r3 == SubSeq(r2, nd + 1, Len(r2))
      r4 == SubSeq(r3, 2, Len(r3))
      w2 == LeadCount(r4, Whitespace)
      yt == SubSeq(r4, w2 + 1, Len(r4))
  IN  IF /\ Len(s) >= 3
         /\ MonthIndex(SubSeq(s, 1, 3)) > 0
         /\ w1 >= 1
         /\ nd >= 1
         /\ DayTok(SubSeq(r2, 1, nd))
         /\ r3 # <<>>
         /\ r3[1] = ","
         /\ w2 >= 1
         /\ YearTok(yt)
      THEN MkDate(StrToInt(yt), MonthIndex(SubSeq(s, 1, 3)),
                  StrToInt(SubSeq(r2, 1, nd)))
      ELSE NoDate

\* strptime(s, "%d %b %Y"): day, \s+, month name, \s+, year.
ParseDbY(s) ==
  LET nd == LeadCount(s, Digits)
      r1 == SubSeq(s, nd + 1, Len(s))
      w1 == LeadCount(r1, Whitespace)
      r2 == SubSeq(r1, w1 + 1, Len(r1))
      r3 == SubSeq(r2, 4, Len(r2))
      w2 == LeadCount(r3, Whitespace)
      yt == SubSeq(r3, w2 + 1, Len(r3))
  IN  IF /\ nd >= 1
         /\ DayTok(SubSeq(s, 1, nd))
         /\ w1 >= 1
         /\ Len(r2) >= 3
         /\ MonthIndex(SubSeq(r2, 1, 3)) > 0
         /\ w2 >= 1
         /\ YearTok(yt)
      THEN MkDate(StrToInt(yt), MonthIndex(SubSeq(r2, 1, 3)),
                  StrToInt(SubSeq(s, 1, nd)))
      ELSE NoDate

\* datetime.strptime(s, f): the date, or NoDate where strptime raises.
Strptime(s, f) ==
  CASE f.kind = "split" -> ParseSplit(s, f)
    [] f.kind = "bdY"   -> ParseBdY(s)
    [] f.kind = "dbY"   -> ParseDbY(s)

\* dt.strftime("%Y-%m-%d").  %m and %d are always two digits.  %Y is handed to
\* the C library: glibc prints the year without padding, other libraries pad
\* it to four digits; pad_year tells which.
Strftime(dt) ==
  (IF pad_year THEN ZeroPad(IntToStr(dt.y), 4) ELSE IntToStr(dt.y))
    \o <<"-">> \o ZeroPad(IntToStr(dt.m), 2)
    \o <<"-">> \o ZeroPad(IntToStr(dt.d), 2)

\* The formats that parse s, by position in fmts.
ParsingFormats(s) == {i \in 1..Len(fmts) : Strptime(s, fmts[i]).ok}

FirstOf(S) == CHOOSE i \in S : \A j \in S : i <= j

normalize_date(s0) ==
  LET s == Strip(s0)
      hits == ParsingFormats(s)
  IN  IF s = <<>> THEN <<>>
      ELSE IF hits = {} THEN s
      ELSE Strftime(Strptime(s, fmts[FirstOf(hits)]))

(***************************************************************************)
(* Parsed JSON values (what json.loads returns).                           *)
(***************************************************************************)
JNull == [t |-> "null"]
JInt(n) == [t |-> "int", n |-> n]
\* A float, held in tenths: JFloat(125) is 12.5
JFloat(n) == [t |-> "float", tenths |-> n]
JBool(b) == [t |-> "bool", b |-> b]
JStr(s) == [t |-> "str", s |-> s]
JList(xs) == [t |-> "list", xs |-> xs]
JDict(m) == [t |-> "dict", m |-> m]

EmptyDict == JDict(<<>>)
EmptyStr == JStr(<<>>)

\* isinstance(v, dict)
IsDict(v) == v.t = "dict"

\* IsNumber with list among the types left as they are.
IsNumberOrList(v) == v.t \in {"int", "float", "bool", "list"}

\* isinstance(v, (int, float)); bool is a subclass of int
IsNumber(v) == v.t \in {"int", "float", "bool"}

Range(f) == {f[i] : i \in DOMAIN f}

RECURSIVE Join(_, _)
Join(ss, sep) ==
  IF ss = <<>> THEN <<>>
  ELSE IF Len(ss) = 1 THEN ss[1]
  ELSE ss[1] \o sep \o Join(Tail(ss), sep)

\* The keys of a dict in one fixed order (Python keeps insertion order, which
\* the function m does not record).
RECURSIVE KeySeq(_)
KeySeq(S) ==
  IF S = {} THEN <<>>
  ELSE LET k == CHOOSE x \in S : TRUE IN <<k>> \o KeySeq(S \ {k})

\* repr(v) of a parsed value; the strings of the model hold no quote or escape.
RECURSIVE PyRepr(_)
PyRepr(v) ==
  CASE v.t = "null"  -> <<"N", "o", "n", "e">>
    [] v.t = "int"   -> IntToStr(v.n)
    [] v.t = "float" -> IntToStr(v.tenths \div 10) \o <<".">> \o IntToStr(v.tenths % 10)
    [] v.t = "bool"  -> IF v.b THEN <<"T", "r", "u", "e">>
                        ELSE <<"F", "a", "l", "s", "e">>
    [] v.t = "str"   -> <<"'">> \o v.s \o <<"'">>
    [] v.t = "list"  ->
         <<"[">> \o Join([i \in 1..Len(v.xs) |-> PyRepr(v.xs[i])], <<",", " ">>)
                 \o <<"]">>
    [] v.t = "dict"  ->
         LET ks == KeySeq(DOMAIN v.m)
         IN  <<"{">> \o Join([i \in 1..Len(ks) |->
                                <<"'">> \o ks[i] \o <<"'", ":", " ">> \o PyRepr(v.m[ks[i]])],
                             <<",", " ">>)
                     \o <<"}">>

\* str(v): a str is itself, anything else its repr
PyStr(v) == IF v.t = "str" THEN v.s ELSE PyRepr(v)

(***************************************************************************)
(* The canonical schema: section -> field names, in the order of the       *)
(* literal.  A field name is the sequence of its words.                    *)
(***************************************************************************)
CANONICAL_SCHEMA ==
  ("order_metadata" :> <<
      <<"order", "id">>, <<"order", "date">>, <<"foreign", "order", "id">>,
      <<"document", "type">>, <<"priority">>, <<"status">>,
      <<"activity">>, <<"due", "on">>, <<"manager">>,
      <<"location">>, <<"practice", "id">>, <<"source", "system">>,
      <<"creation", "user">>, <<"last", "modified", "user">> >>)
  @@ ("patient_information" :> <<
      <<"patient", "id">>, <<"patient", "first", "name">>, <<"patient", "last", "name">>,
      <<"patient", "dob">>, <<"patient", "age">>, <<"patient", "gender">>,
      <<"patient", "pregnancy">>, <<"patient", "species">>, <<"patient", "ethnicity">>,
      <<"patient", "weight", "kg">>, <<"patient", "height", "cm">>, <<"patient", "phone">>,
      <<"patient", "email">>, <<"patient", "address", "line1">>, <<"patient", "address", "line2">>,
      <<"patient", "city">>, <<"patient", "state">>, <<"patient", "zip">>,
      <<"patient", "country">>, <<"patient", "insurance", "provider">>, <<"patient", "insurance", "id">>,
      <<"patient", "group", "number">> >>)
  @@ ("prescriber_information" :> <<
      <<"prescriber", "id">>, <<"prescriber", "first", "name">>, <<"prescriber", "last", "name">>,
      <<"prescriber", "npi">>, <<"prescriber", "phone">>, <<"prescriber", "fax">>,
      <<"prescriber", "email">>, <<"prescriber", "clinic", "name">>, <<"prescriber", "address", "line1">>,
      <<"prescriber", "address", "line2">>, <<"prescriber", "city">>, <<"prescriber", "state">>,
      <<"prescriber", "zip">>, <<"prescriber", "license">>, <<"prescriber", "license", "expiration", "date">>,
      <<"prescriber", "dea">>, <<"prescriber", "dea", "expiration", "date">>, <<"prescriber", "controlled", "license">>,
      <<"prescriber", "controlled", "license", "expiration">>, <<"prescriber", "discipline">> >>)
  @@ ("payment" :> <<
      <<"payor">>, <<"payor", "lastname">>, <<"payor", "firstname">>,
      <<"payor", "address">>, <<"payor", "address", "line1">>, <<"payor", "address", "line2">>,
      <<"payor", "city">>, <<"payor", "state">>, <<"payor", "zip">> >>)
  @@ ("shipping_delivery" :> <<
      <<"shipping", "method">>, <<"ship", "date">>, <<"delivery", "date">>,
      <<"tracking", "number">>, <<"courier">>, <<"shipping", "address", "line1">>,
      <<"shipping", "address", "line2">>, <<"shipping", "city">>, <<"shipping", "state">>,
      <<"shipping", "zip">>, <<"shipping", "contact", "name">>, <<"shipping", "contact", "phone">> >>)
  @@ ("medication_prescription_data" :> <<
      <<"rx", "number">>, <<"fill", "date">>, <<"drug", "name">>,
      <<"strength">>, <<"form">>, <<"ndc", "code">>,
      <<"sig">>, <<"days", "supply">>, <<"quantity", "dispensed">>,
      <<"refills", "remaining">>, <<"lot", "number">>, <<"expiration", "date">>,
      <<"unit", "price">>, <<"ingredient", "cost">>, <<"dispensing", "fee">>,
      <<"tax", "amount">>, <<"line", "total">>, <<"pharmacy", "notes">> >>)
  @@ ("clinical" :> <<
      <<"patient", "allergies">>, <<"patient", "diseases">>, <<"patient", "medication", "history">>,
      <<"patient", "encounters">> >>)

\* schema_keys_nested(schema)[section], as a set
FieldKeys(schema, section) == Range(schema[section])

\* name ends with the words of suffix
EndsWith(name, suffix) ==
  /\ Len(name) >= Len(suffix)
  /\ SubSeq(name, Len(name) - Len(suffix) + 1, Len(name)) = suffix

\* _DATE_FIELDS: (date|dob|expiration|due_on|ship_date|delivery_date)$
DateSuffixes ==
  { <<"date">>, <<"dob">>, <<"expiration">>, <<"due", "on">>,
    <<"ship", "date">>, <<"delivery", "date">> }

\* _NUMERIC_HINT: (amount|price|total|fee|paid|tax|qty|quantity|zip|npi|dea|
\* phone|rx|order_id|invoice|weight|height|days_supply|unit_price|line_total)$
NumericSuffixes ==
  { <<"amount">>, <<"price">>, <<"total">>, <<"fee">>, <<"paid">>, <<"tax">>,
    <<"qty">>, <<"quantity">>, <<"zip">>, <<"npi">>, <<"dea">>, <<"phone">>,
    <<"rx">>, <<"order", "id">>, <<"invoice">>, <<"weight">>, <<"height">>,
    <<"days", "supply">>, <<"unit", "price">>, <<"line", "total">> }

\* Every field name of the schema.
SchemaFieldNames == UNION {FieldKeys(CANONICAL_SCHEMA, section) : section \in DOMAIN CANONICAL_SCHEMA}

\* The compiled patterns, as the schema field names each one matches.
DateFieldNames == {k \in SchemaFieldNames : \E suf \in DateSuffixes : EndsWith(k, suf)}

NumericHintNames == {k \in SchemaFieldNames : \E suf \in NumericSuffixes : EndsWith(k, suf)}

\* _DATE_FIELDS.search(k), for a schema field name k
IsDateField(k) == k \in DateFieldNames

\* _NUMERIC_HINT.search(k), for a schema field name k
IsNumericHint(k) == k \in NumericHintNames

(***************************************************************************)
(* The Response Normalizer.                                                *)
(***************************************************************************)
\* result.get(section, {}) if isinstance(result, dict) else {}, then {} again
\* unless that is a dict
SectionOf(result, section) ==
  LET sec_val == IF IsDict(result) /\ section \in DOMAIN result.m
                 THEN result.m[section] ELSE EmptyDict
  IN  IF IsDict(sec_val) THEN sec_val ELSE EmptyDict

\* FieldOf without the test for None.
FieldOfKeepsNull(sec_val, k) ==
  IF k \in DOMAIN sec_val.m THEN sec_val.m[k] ELSE EmptyStr

\* sec_val.get(k, ""), with None replaced by ""
FieldOf(sec_val, k) ==
  LET v == IF k \in DOMAIN sec_val.m THEN sec_val.m[k] ELSE EmptyStr
  IN  IF v.t = "null" THEN EmptyStr ELSE v

\* ensure_all_fields looping over the input's keys as well as the schema's.
ensure_all_fields_KeepsExtra(result, schema) ==
  [section \in DOMAIN schema |->
     [k \in FieldKeys(schema, section) \cup DOMAIN SectionOf(result, section).m |->
        FieldOf(SectionOf(result, section), k)]]

ensure_all_fields(result, schema) ==
  [section \in DOMAIN schema |->
     [k \in FieldKeys(schema, section) |-> FieldOf(SectionOf(result, section), k)]]

\* StripCurrency without the final strip().
StripCurrencyNoTrim(s) == Remove(Remove(s, "$"), ",")

\* StripCurrency without the replace of ",".
StripDollarOnly(s) == Strip(Remove(s, "$"))

\* s.replace("$", "").replace(",", "").strip()
StripCurrency(s) == Strip(Remove(Remove(s, "$"), ","))

\* The body of postprocess_all's inner loop: the value stored at key k.
PostprocessField(k, v) ==
  IF v.t = "null" THEN EmptyStr
  ELSE IF IsNumber(v) THEN v
  ELSE LET s  == Strip(PyStr(v))
           s1 == IF IsNumericHint(k) THEN StripCurrency(s) ELSE s
           s2 == IF IsDateField(k) THEN normalize_date(s1) ELSE s1
       IN  JStr(s2)

postprocess_all(d) ==
  [section \in DOMAIN d |->
     [k \in DOMAIN d[section] |-> PostprocessField(k, d[section][k])]]

(***************************************************************************)
(* Raw-output recovery (extract_invoice, the best-effort JSON parse).      *)
(***************************************************************************)
\* The fence marker, three backquotes (a string here cannot hold a backquote).
Fence == "<fence>"
JsonTag == "json"

\* A model output that omits the clinical section, has a field outside the
\* schema, and leaves dates and amounts as printed on the document.
PartialObject ==
  JDict(
    ("order_metadata" :>
       JDict((<<"order", "id">> :> JInt(7))
          @@ (<<"order", "date">> :> JStr(<<"0", "3", "/", "1", "5", "/", "2", "0", "2", "4">>))
          @@ (<<"status">> :> JNull)
          @@ (<<"not", "in", "schema">> :> JStr(<<"x">>))))
    @@ ("medication_prescription_data" :>
       JDict(<<"unit", "price">> :> JStr(<<"$", "1", ",", "2", "5", "0", ".", "5", "0">>))))

\* The complete JSON texts a response may hold, with the value each decodes to.
JsonText ==
  ("{partial}" :> PartialObject)
  @@ ("{}" :> EmptyDict)
  @@ ("[1]" :> JList(<<JInt(1)>>))
  @@ ("null" :> JNull)

\* Text that is no JSON text and no part of a fence.
Junk == "not json at all"

\* json.loads(s): surrounding whitespace is skipped; anything but exactly one
\* JSON text raises.
JsonLoads(s) ==
  LET t == Strip(s)
  IN  IF Len(t) = 1 /\ t[1] \in DOMAIN JsonText
      THEN [ok |-> TRUE, value |-> JsonText[t[1]]]
      ELSE [ok |-> FALSE, value |-> JNull]

\* FenceStrip with a pattern that lacks the optional json tag.
FenceStripKeepsTag(s) ==
  LET rest == SubSeq(s, 2, Len(s))
      r    == IF s # <<>> /\ s[1] = Fence
              THEN SubSeq(rest, LeadCount(rest, Whitespace) + 1, Len(rest))
              ELSE s
      body == SubSeq(r, 1, Len(r) - 1)
  IN  IF r # <<>> /\ r[Len(r)] = Fence
      THEN SubSeq(body, 1, Len(body) - TrailCount(body, Whitespace))
      ELSE r

\* re.sub(r"^```(?:json)?\s*|\s*```$", "", s): a fence at the very start goes
\* with its optional json tag and the whitespace after it; a fence at the very
\* end goes with the whitespace before it.
FenceStrip(s) ==
  LET tag  == IF Len(s) >= 2 /\ s[2] = JsonTag THEN 1 ELSE 0
      rest == SubSeq(s, 2 + tag, Len(s))
      r    == IF s # <<>> /\ s[1] = Fence
              THEN SubSeq(rest, LeadCount(rest, Whitespace) + 1, Len(rest))
              ELSE s
      body == SubSeq(r, 1, Len(r) - 1)
  IN  IF r # <<>> /\ r[Len(r)] = Fence
      THEN SubSeq(body, 1, Len(body) - TrailCount(body, Whitespace))
      ELSE r

(***************************************************************************)
(* The inputs the model draws from.                                        *)
(***************************************************************************)
RECURSIVE Spaces(_)
Spaces(n) == IF n = 0 THEN <<>> ELSE <<" ">> \o Spaces(n - 1)

\* s with up to MaxPad blanks on either side
Padded(s) == {Spaces(a) \o s \o Spaces(b) : a \in 0..MaxPad, b \in 0..MaxPad}

DayMonthToks ==
  { <<"2">>, <<"0", "3">>, <<"1", "2">>, <<"1", "5">>, <<"2", "9">>, <<"3", "1">> }

YearToks ==
  { <<"2", "0", "2", "4">>, <<"2", "0", "2", "3">>, <<"0", "9", "9", "9">> }

\* a-b-c and a/b/c with the year first or last
NumericDateStrings ==
  UNION { UNION { { y \o <<sep>> \o a \o <<sep>> \o b,
                    a \o <<sep>> \o b \o <<sep>> \o y } : sep \in {"/", "-"} }
          : a \in DayMonthToks, b \in DayMonthToks, y \in YearToks }

MonthNames == { <<"M", "a", "r">>, <<"f", "e", "b">>, <<"S", "E", "P">> }

\* "Mon DD, YYYY" and "DD Mon YYYY"
NamedDateStrings ==
  UNION { { mon \o <<" ">> \o d \o <<",", " ">> \o y,
            d \o <<" ">> \o mon \o <<" ">> \o y }
          : mon \in MonthNames, d \in DayMonthToks, y \in YearToks }

OtherStrings ==
  { <<>>,
    <<"n", "o", "t", "-", "a", "-", "d", "a", "t", "e">>,
    <<"$", "1", ",", "2", "5", "0", ".", "5", "0">>,
    <<"$", " ", "1", "2">>,
    <<"1", "2", " ", "$">>,
    <<"1", ",", "0", "0", "0">>,
    <<"$">>,
    <<",", " ", "$">>,
    <<"0", "0", "0", "0", "-", "0", "3", "-", "1", "5">>,
    <<"2", "0", "2", "4", "-", "0", "3", "-", " ", "5">>,
    <<"2", "0", "2", "4", "-", "0", "3", "-", "1", "5", "5">>,
    <<"2", "4", "-", "0", "3", "-", "1", "5">>,
    <<"M", "a", "r", " ", "\n", "5", ",", " ", " ", "2", "0", "2", "4">>,
    <<"M", "a", "r", " ", "5", ",", "2", "0", "2", "4">>,
    <<"M", "a", "r", "c", "h", " ", "5", ",", " ", "2", "0", "2", "4">>,
    <<"5", " ", " ", "m", "A", "r", "\t", "2", "0", "2", "4">>,
    <<"5", "M", "a", "r", " ", "2", "0", "2", "4">>,
    <<"T", "1", ",", "$", "9">> }

FieldStrings ==
  UNION { Padded(s) : s \in NumericDateStrings \cup NamedDateStrings \cup OtherStrings }

\* Field values that are not strings.
OtherValues ==
  { JNull, JInt(0), JInt(1250), JFloat(125), JBool(TRUE), JBool(FALSE),
    JList(<<>>), JList(<<JInt(1), JInt(2)>>),
    JList(<<JStr(<<"$", "5">>), JNull, JBool(TRUE), JFloat(5)>>),
    JDict(<<"a">> :> JInt(1)),
    JDict((<<"a">> :> JStr(<<"$">>)) @@ (<<"b">> :> JList(<<JInt(3)>>))) }

FieldValues == {JStr(s) : s \in FieldStrings} \cup OtherValues

\* A date field, a numeric-hint field and a field that is neither, each with
\* its section.
Slots ==
  { <<"order_metadata", <<"order", "date">>>>,
    <<"medication_prescription_data", <<"unit", "price">>>>,
    <<"shipping_delivery", <<"tracking", "number">>>> }

\* A model output holding one field.
SingleFieldOutputs ==
  {JDict(slot[1] :> JDict(slot[2] :> v)) : slot \in Slots, v \in FieldValues}

SectionNames ==
  { "order_metadata", "shipping_delivery", "medication_prescription_data",
    "clinical", "not_a_section" }

SomeFields ==
  JDict((<<"order", "date">> :> JStr(<<"1", "5", " ", "M", "a", "r", " ", "2", "0", "2", "4">>))
     @@ (<<"tracking", "number">> :> JStr(<<" ", "T", "1", ",", "$", " ">>))
     @@ (<<"unit", "price">> :> JInt(5))
     @@ (<<"patient", "allergies">> :> JNull)
     @@ (<<"not", "in", "schema">> :> JStr(<<"x">>)))

\* What a section of a model output may hold: a mapping or something else.
SectionValues ==
  { JNull, JStr(<<"x">>), JList(<<JInt(1)>>), EmptyDict, SomeFields,
    JDict(<<"not", "in", "schema">> :> JBool(TRUE)) }

\* Model outputs with up to MaxSections sections, in or outside the schema.
MultiSectionOutputs ==
  {JDict(m) : m \in UNION {[S -> SectionValues] :
                 S \in {T \in SUBSET SectionNames : Cardinality(T) <= MaxSections}}}

\* Model outputs that are no mapping at all.
NonMappingOutputs ==
  { JNull, JInt(3), JBool(TRUE), JStr(<<"x">>), JList(<<JInt(1)>>),
    JList(<<SomeFields>>) }

NormalizerInputs ==
  SingleFieldOutputs \cup MultiSectionOutputs \cup NonMappingOutputs \cup {PartialObject}

PageLengths == {300, 301}

RECURSIVE SeqsUpTo(_, _)
SeqsUpTo(S, n) ==
  IF n = 0 THEN {<<>>}
  ELSE LET shorter == SeqsUpTo(S, n - 1)
       IN  shorter \cup {Append(s, x) : s \in {t \in shorter : Len(t) = n - 1}, x \in S}

\* The per-page text lengths of the documents.
PageLists == SeqsUpTo(PageLengths, MaxPages)

\* Responses wrapped in fences the way models wrap them, around every JSON text
\* and around text that is not JSON.
FencedResponses ==
  UNION { { <<Fence, JsonTag, "\n", b, "\n", Fence>>,
            <<Fence, "\n", b, "\n", Fence>>,
            <<"\n", Fence, JsonTag, b, Fence, "\n">>,
            <<Fence, JsonTag, " ", "\n", b>>,
            <<b, "\n", "\n", Fence>>,
            <<Fence, "\n", JsonTag, "\n", b, "\n", Fence>>,
            <<Junk, Fence, JsonTag, "\n", b, "\n", Fence>>,
            <<Fence, JsonTag, "\n", b, "\n", Fence, Junk>>,
            <<b>> }
          : b \in DOMAIN JsonText \cup {Junk} }

RawTokens == {Fence, JsonTag, "\n", "{partial}", Junk}

\* resp.content as a str, or json.dumps of it when it is a list of parts.
RawResponses == SeqsUpTo(RawTokens, MaxRawLen) \cup FencedResponses

Providers == {"openai", "vertex", "azure"}

(***************************************************************************)
(* The Document Sniffer.                                                   *)
(***************************************************************************)
\* The threshold of avg_len > 300
TextThreshold == 300

RECURSIVE Sum(_)
Sum(ps) == IF ps = <<>> THEN 0 ELSE Head(ps) + Sum(Tail(ps))

\* TextOk with >= in place of >.
TextOkAtThreshold(ps) ==
  LET n == IF Len(ps) >= 1 THEN Len(ps) ELSE 1
  IN  Sum(ps) >= TextThreshold * n

\* sum(len(p) for p in pages) / max(1, len(pages)) > 300.  The quotient is a
\* true division; comparing it with the threshold is comparing the sum with
\* the threshold times the divisor.
TextOk(ps) ==
  LET n == IF Len(ps) >= 1 THEN Len(ps) ELSE 1
  IN  Sum(ps) > TextThreshold * n

(***************************************************************************)
(* extract_invoice, one action per call it makes.                          *)
(***************************************************************************)
NoResult == <<>>

Init ==
  /\ pc = "start"
  /\ provider \in Providers
  /\ use_vision \in BOOLEAN
  /\ pad_year \in BOOLEAN
  /\ pages = <<>>
  /\ text_ok = FALSE
  /\ mode = "none"
  /\ rasterized = FALSE
  /\ invokes = 0
  /\ parses = 0
  /\ raw = <<>>
  /\ parsed = JNull
  /\ shaped = NoResult
  /\ error = "none"

\* The function raises: nothing is returned.
Raise(what) ==
  /\ pc' = "failed"
  /\ error' = what

\* text, pages = extract_text_with_pymupdf(pdf_path); avg_len; text_ok
ExtractText ==
  /\ pc = "start"
  /\ \E ps \in PageLists :
       /\ pages' = ps
       /\ text_ok' = TextOk(ps)
  /\ pc' = "sniffed"
  /\ UNCHANGED <<provider, use_vision, pad_year, mode, rasterized, invokes,
                 parses, raw, parsed, shaped, error>>

\* fitz.open raises on a path that is no readable PDF
ExtractTextRaises ==
  /\ pc = "start"
  /\ Raise("extract_text_with_pymupdf")
  /\ UNCHANGED <<provider, use_vision, pad_year, pages, text_ok, mode,
                 rasterized, invokes, parses, raw, parsed, shaped>>

\* make_llm without the check of the provider.
make_llm_AnyProvider ==
  /\ pc = "sniffed"
  /\ pc' = "llm"
  /\ UNCHANGED <<provider, use_vision, pad_year, pages, text_ok, mode,
                 rasterized, invokes, parses, raw, parsed, shaped, error>>

\* llm = make_llm(cfg)
make_llm ==
  /\ pc = "sniffed"
  /\ IF provider = "openai" \/ provider = "vertex"
     THEN pc' = "llm" /\ error' = error
     ELSE Raise("make_llm")
  /\ UNCHANGED <<provider, use_vision, pad_year, pages, text_ok, mode,
                 rasterized, invokes, parses, raw, parsed, shaped>>

\* msgs = messages_for_text(...): when text_ok, or when vision is switched off
messages_for_text ==
  /\ pc = "llm"
  /\ text_ok \/ ~use_vision
  /\ mode' = "text"
  /\ pc' = "msgs"
  /\ UNCHANGED <<provider, use_vision, pad_year, pages, text_ok, rasterized,
                 invokes, parses, raw, parsed, shaped, error>>

\* b64_images = pdf_to_b64_images(...); msgs = messages_for_images(...)
messages_for_images ==
  /\ pc = "llm"
  /\ ~text_ok
  /\ use_vision
  /\ rasterized' = TRUE
  /\ mode' = "vision"
  /\ pc' = "msgs"
  /\ UNCHANGED <<provider, use_vision, pad_year, pages, text_ok, invokes,
                 parses, raw, parsed, shaped, error>>

\* pdf_to_b64_images raises (convert_from_path cannot render the file)
RasterizeRaises ==
  /\ pc = "llm"
  /\ ~text_ok
  /\ use_vision
  /\ rasterized' = TRUE
  /\ Raise("pdf_to_b64_images")
  /\ UNCHANGED <<provider, use_vision, pad_year, pages, text_ok, mode,
                 invokes, parses, raw, parsed, shaped>>

\* resp = llm.invoke(msgs); raw = resp.content, or json.dumps of it
Invoke ==
  /\ pc = "msgs"
  /\ invokes' = invokes + 1
  /\ raw' \in RawResponses
  /\ pc' = "invoked"
  /\ UNCHANGED <<provider, use_vision, pad_year, pages, text_ok, mode,
                 rasterized, parses, parsed, shaped, error>>

\* llm.invoke raises (the provider is unreachable, or refuses)
InvokeRaises ==
  /\ pc = "msgs"
  /\ invokes' = invokes + 1
  /\ Raise("llm.invoke")
  /\ UNCHANGED <<provider, use_vision, pad_year, pages, text_ok, mode,
                 rasterized, parses, raw, parsed, shaped>>

\* try: parsed = json.loads(raw)
ParseFirst ==
  /\ pc = "invoked"
  /\ parses' = parses + 1
  /\ IF JsonLoads(raw).ok
     THEN parsed' = JsonLoads(raw).value /\ pc' = "parsed"
     ELSE parsed' = parsed /\ pc' = "retry"
  /\ UNCHANGED <<provider, use_vision, pad_year, pages, text_ok, mode,
                 rasterized, invokes, raw, shaped, error>>

\* ParseRetry asking the model again when the second parse fails too.
ParseRetryRequery ==
  /\ pc = "retry"
  /\ parses' = parses + 1
  /\ LET cleaned == FenceStrip(Strip(raw))
     IN  IF JsonLoads(cleaned).ok
         THEN parsed' = JsonLoads(cleaned).value /\ pc' = "parsed"
         ELSE parsed' = parsed /\ pc' = "msgs"
  /\ UNCHANGED <<provider, use_vision, pad_year, pages, text_ok, mode,
                 rasterized, invokes, raw, shaped, error>>

\* except: cleaned = re.sub(..., raw.strip()); parsed = json.loads(cleaned),
\* or {} when that raises too
ParseRetry ==
  /\ pc = "retry"
  /\ parses' = parses + 1
  /\ LET cleaned == FenceStrip(Strip(raw))
     IN  parsed' = IF JsonLoads(cleaned).ok THEN JsonLoads(cleaned).value
                   ELSE EmptyDict
  /\ pc' = "parsed"
  /\ UNCHANGED <<provider, use_vision, pad_year, pages, text_ok, mode,
                 rasterized, invokes, raw, shaped, error>>

\* shaped = ensure_all_fields(parsed, CANONICAL_SCHEMA)
Shape ==
  /\ pc = "parsed"
  /\ shaped' = ensure_all_fields(parsed, CANONICAL_SCHEMA)
  /\ pc' = "shaped"
  /\ UNCHANGED <<provider, use_vision, pad_year, pages, text_ok, mode,
                 rasterized, invokes, parses, raw, parsed, error>>

\* shaped = postprocess_all(shaped); return shaped
Postprocess ==
  /\ pc = "shaped"
  /\ shaped' = postprocess_all(shaped)
  /\ pc' = "done"
  /\ UNCHANGED <<provider, use_vision, pad_year, pages, text_ok, mode,
                 rasterized, invokes, parses, raw, parsed, error>>

Next ==
  \/ ExtractText
  \/ ExtractTextRaises
  \/ make_llm
  \/ messages_for_text
  \/ messages_for_images
  \/ RasterizeRaises
  \/ Invoke
  \/ InvokeRaises
  \/ ParseFirst
  \/ ParseRetry
  \/ Shape
  \/ Postprocess

\* The pipeline: one run of extract_invoice on any document and response.
Spec == Init /\ [][Next]_vars

(***************************************************************************)
(* The Response Normalizer on its own: any parsed value goes through       *)
(* ensure_all_fields and postprocess_all.                                  *)
(***************************************************************************)
InitNormalizer ==
  /\ pc = "parsed"
  /\ parsed \in NormalizerInputs
  /\ pad_year \in BOOLEAN
  /\ provider = "openai"
  /\ use_vision = TRUE
  /\ pages = <<>>
  /\ text_ok = FALSE
  /\ mode = "none"
  /\ rasterized = FALSE
  /\ invokes = 0
  /\ parses = 0
  /\ raw = <<>>
  /\ shaped = NoResult
  /\ error = "none"

NextNormalizer == Shape \/ Postprocess

SpecNormalizer == InitNormalizer /\ [][NextNormalizer]_vars

(***************************************************************************)
(* Vocabulary of the properties.                                           *)
(***************************************************************************)
OrderDate == <<"order", "date">>
UnitPrice == <<"unit", "price">>
TrackingNumber == <<"tracking", "number">>

\* The run has a result: extract_invoice returned.
Returned == pc = "done"

\* The model output holds a value, null included, at section.field.
HasInput(section, k) ==
  /\ IsDict(parsed)
  /\ section \in DOMAIN parsed.m
  /\ IsDict(parsed.m[section])
  /\ k \in DOMAIN parsed.m[section].m

InputAt(section, k) == parsed.m[section].m[k]

\* The model output holds a string at section.field.
HasStringInput(section, k) ==
  HasInput(section, k) /\ InputAt(section, k).t = "str"

\* Every field of a result is the empty string.
AllEmpty(result) ==
  \A section \in DOMAIN result : \A k \in DOMAIN result[section] :
    result[section][k] = EmptyStr

\* s with every character of S left out
RECURSIVE Without(_, _)
Without(s, S) ==
  IF s = <<>> THEN <<>>
  ELSE IF Head(s) \in S THEN Without(Tail(s), S)
  ELSE <<Head(s)>> \o Without(Tail(s), S)

\* r is s with leading and trailing whitespace removed and nothing else.
IsTrimOf(r, s) ==
  /\ r = <<>> \/ (r[1] \notin Whitespace /\ r[Len(r)] \notin Whitespace)
  /\ \E a \in 0..Len(s) :
       /\ a + Len(r) <= Len(s)
       /\ SubSeq(s, a + 1, a + Len(r)) = r
       /\ \A i \in 1..a : s[i] \in Whitespace
       /\ \A i \in (a + Len(r) + 1)..Len(s) : s[i] \in Whitespace

TrimOf(s) ==
  CHOOSE r \in {SubSeq(s, a, b) : a \in 1..(Len(s) + 1), b \in 0..Len(s)} :
    IsTrimOf(r, s)

\* A date written YYYY-MM-DD
Iso(dt) ==
  ZeroPad(IntToStr(dt.y), 4) \o <<"-">> \o ZeroPad(IntToStr(dt.m), 2)
    \o <<"-">> \o ZeroPad(IntToStr(dt.d), 2)

\* The result a second run of the Normalizer gives on a result.
AsParsed(result) == JDict([section \in DOMAIN result |-> JDict(result[section])])

Normalizer(value) == postprocess_all(ensure_all_fields(value, CANONICAL_SCHEMA))

(***************************************************************************)
(* C1.  Shape totality: whatever value is handed to ensure_all_fields, its *)
(* output has exactly the schema's sections and, in each, exactly the      *)
(* schema's fields; postprocess_all keeps the keys, so the returned result *)
(* has the canonical shape.                                                *)
(***************************************************************************)
ShapeTotality ==
  pc \in {"shaped", "done"} =>
    /\ DOMAIN shaped = DOMAIN CANONICAL_SCHEMA
    /\ \A section \in DOMAIN CANONICAL_SCHEMA :
         DOMAIN shaped[section] = Range(CANONICAL_SCHEMA[section])

\* A returned result for an output with a section outside the schema, a section
\* that is no mapping, and no clinical section.
ShapeTotalityWitness ==
  /\ Returned
  /\ IsDict(parsed)
  /\ "not_a_section" \in DOMAIN parsed.m
  /\ "clinical" \notin DOMAIN parsed.m
  /\ \E section \in DOMAIN parsed.m :
       section \in DOMAIN CANONICAL_SCHEMA /\ ~IsDict(parsed.m[section])

(***************************************************************************)
(* C2, as stated.  Every field value of the returned result is a string,   *)
(* also where the model output holds a number, a boolean, a list or a      *)
(* nested object.                                                          *)
(***************************************************************************)
AllFieldsAreStrings ==
  Returned =>
    \A section \in DOMAIN shaped : \A k \in DOMAIN shaped[section] :
      shaped[section][k].t = "str"

(***************************************************************************)
(* C2, amended.  Every field value of the returned result is a string,     *)
(* except that a JSON number or boolean of the model output is returned    *)
(* unchanged; null, lists and nested objects do become strings.            *)
(***************************************************************************)
FieldsAreStringsOrNumbers ==
  Returned =>
    \A section \in DOMAIN shaped : \A k \in DOMAIN shaped[section] :
      IF HasInput(section, k) /\ InputAt(section, k).t \in {"int", "float", "bool"}
      THEN shaped[section][k] = InputAt(section, k)
      ELSE shaped[section][k].t = "str"

\* A returned result that holds a list turned into a string.
FieldsAreStringsOrNumbersWitness ==
  /\ Returned
  /\ HasInput("medication_prescription_data", UnitPrice)
  /\ InputAt("medication_prescription_data", UnitPrice).t = "list"
  /\ shaped["medication_prescription_data"][UnitPrice] = JStr(<<"[", "1", " ", "2", "]">>)

(***************************************************************************)
(* C3.  Value selection: after ensure_all_fields, the value at section S,  *)
(* field F is the model output's value there when the output is a mapping, *)
(* its S entry is a mapping and F is present and not null; otherwise it    *)
(* is "".  Nothing outside the schema appears.  An output without a        *)
(* clinical section gets a clinical section of four fields, all "".        *)
(***************************************************************************)
ValueSelection ==
  pc = "shaped" =>
    /\ \A section \in DOMAIN CANONICAL_SCHEMA :
         \A k \in Range(CANONICAL_SCHEMA[section]) :
           shaped[section][k] =
             IF HasInput(section, k) /\ InputAt(section, k).t # "null"
             THEN InputAt(section, k) ELSE EmptyStr
    /\ DOMAIN shaped \subseteq DOMAIN CANONICAL_SCHEMA
    /\ \A section \in DOMAIN shaped :
         DOMAIN shaped[section] \subseteq Range(CANONICAL_SCHEMA[section])
    /\ ~(IsDict(parsed) /\ "clinical" \in DOMAIN parsed.m) =>
         /\ Cardinality(DOMAIN shaped["clinical"]) = 4
         /\ \A k \in DOMAIN shaped["clinical"] : shaped["clinical"][k] = EmptyStr

\* An output without a clinical section, with a value that is taken, a null
\* and a field outside the schema.
ValueSelectionWitness ==
  /\ pc = "shaped"
  /\ IsDict(parsed)
  /\ "clinical" \notin DOMAIN parsed.m
  /\ HasInput("order_metadata", OrderDate)
  /\ shaped["order_metadata"][OrderDate] = InputAt("order_metadata", OrderDate)
  /\ HasInput("order_metadata", <<"patient", "allergies">>)
  /\ HasInput("order_metadata", <<"not", "in", "schema">>)

(***************************************************************************)
(* C5.  Idempotence: the Normalizer applied to a result it returned gives  *)
(* that result again, in every field.                                      *)
(***************************************************************************)
Idempotence == Returned => Normalizer(AsParsed(shaped)) = shaped

\* A returned result in which a date was rewritten, a number passed through
\* and a value lost its blanks and kept its "$" and ",".
IdempotenceWitness ==
  /\ Returned
  /\ HasStringInput("order_metadata", OrderDate)
  /\ shaped["order_metadata"][OrderDate] # InputAt("order_metadata", OrderDate)
  /\ shaped["order_metadata"][OrderDate] =
       JStr(<<"2", "0", "2", "4", "-", "0", "3", "-", "1", "5">>)
  /\ UnitPrice \notin DOMAIN shaped["order_metadata"]
  /\ HasInput("medication_prescription_data", UnitPrice)
  /\ shaped["medication_prescription_data"][UnitPrice] = JInt(5)

\* What the date claim says a date field holds for the input string s0.
ClaimedDate(s0) ==
  LET s == TrimOf(s0)
      hits == ParsingFormats(s)
  IN  IF s = <<>> THEN <<>>
      ELSE IF hits = {} THEN s
      ELSE Iso(Strptime(s, fmts[FirstOf(hits)]))

\* The examples of the date claim.
DateExamples ==
  /\ HasStringInput("order_metadata", OrderDate) =>
       LET s == InputAt("order_metadata", OrderDate).s
           out == shaped["order_metadata"][OrderDate]
           iso == JStr(<<"2", "0", "2", "4", "-", "0", "3", "-", "1", "5">>)
       IN  /\ s = <<"0", "3", "/", "1", "5", "/", "2", "0", "2", "4">> => out = iso
           /\ s = <<"1", "5", " ", "M", "a", "r", " ", "2", "0", "2", "4">> => out = iso
           /\ s = <<"1", "5", "/", "0", "3", "/", "2", "0", "2", "4">> => out = iso
           /\ s = <<"0", "3", "-", "1", "5", "-", "2", "0", "2", "4">> => out = iso
           /\ s = <<"1", "5", "-", "0", "3", "-", "2", "0", "2", "4">> => out = iso
           /\ s = <<"M", "a", "r", " ", "1", "5", ",", " ", "2", "0", "2", "4">> => out = iso
           /\ s = <<"0", "3", "/", "1", "2", "/", "2", "0", "2", "4">> =>
                out = JStr(<<"2", "0", "2", "4", "-", "0", "3", "-", "1", "2">>)
           /\ s = <<"1", "2", "-", "0", "3", "-", "2", "0", "2", "4">> =>
                out = JStr(<<"2", "0", "2", "4", "-", "1", "2", "-", "0", "3">>)
           /\ s = <<"n", "o", "t", "-", "a", "-", "d", "a", "t", "e">> => out = JStr(s)
           /\ s = <<>> => out = EmptyStr
  /\ HasStringInput("shipping_delivery", TrackingNumber) =>
       LET s == InputAt("shipping_delivery", TrackingNumber).s
       IN  s = <<"0", "3", "/", "1", "5", "/", "2", "0", "2", "4">> =>
             shaped["shipping_delivery"][TrackingNumber] = JStr(s)

\* The date claim on the fields whose input is a string, for the dates whose
\* year lies in Years.
DateClaim(Years) ==
  /\ \A section \in DOMAIN shaped : \A k \in DOMAIN shaped[section] :
       HasStringInput(section, k) =>
         LET s == InputAt(section, k).s
             hits == ParsingFormats(TrimOf(s))
         IN  IF IsDateField(k)
             THEN (hits # {} => Strptime(TrimOf(s), fmts[FirstOf(hits)]).y \in Years)
                    => shaped[section][k] = JStr(ClaimedDate(s))
             ELSE shaped[section][k].s \in
                    {TrimOf(s), TrimOf(Without(TrimOf(s), {"$", ","}))}
  /\ DateExamples

(***************************************************************************)
(* C6.  Date normalization: a date field's trimmed string is tried against *)
(* YYYY-MM-DD, MM/DD/YYYY, DD/MM/YYYY, MM-DD-YYYY, DD-MM-YYYY,             *)
(* "Mon DD, YYYY", "DD Mon YYYY" in that order; the first format that      *)
(* parses gives the date, which is written back as YYYY-MM-DD; if none     *)
(* parses the trimmed string stays, "" stays "".  A field that is no date  *)
(* field is never reparsed.                                                *)
(***************************************************************************)
DateNormalization == Returned => DateClaim(1..9999)

\* The same, for the dates of the years 1000 and later.
DateNormalizationFrom1000 == Returned => DateClaim(1000..9999)

\* A date field whose input parses as a date of a year before 1000.
DateBefore1000 ==
  /\ Returned
  /\ HasStringInput("order_metadata", OrderDate)
  /\ InputAt("order_metadata", OrderDate).s =
       <<"0", "9", "9", "9", "-", "0", "3", "-", "1", "5">>

(***************************************************************************)
(* C7.  Numeric stripping: a numeric-hint field whose input is a string    *)
(* holds the trimmed input without any "$" and "," (unit_price "$1,250.50" *)
(* gives "1250.50"); a field that is neither numeric-hint nor date holds   *)
(* the input with only the surrounding whitespace removed, "$" and ","     *)
(* kept (tracking_number).                                                 *)
(***************************************************************************)
NumericStripping ==
  Returned =>
    /\ UnitPrice \in NumericHintNames
    /\ TrackingNumber \notin NumericHintNames \cup DateFieldNames
    /\ \A section \in DOMAIN shaped : \A k \in DOMAIN shaped[section] :
         HasStringInput(section, k) =>
           LET s == InputAt(section, k).s
               out == shaped[section][k]
           IN  IF IsNumericHint(k)
               THEN /\ out.t = "str"
                    /\ "$" \notin Range(out.s)
                    /\ "," \notin Range(out.s)
                    /\ out.s = TrimOf(Without(TrimOf(s), {"$", ","}))
               ELSE ~IsDateField(k) => out = JStr(TrimOf(s))
    /\ HasStringInput("medication_prescription_data", UnitPrice) =>
         (InputAt("medication_prescription_data", UnitPrice).s =
            <<"$", "1", ",", "2", "5", "0", ".", "5", "0">>
          => shaped["medication_prescription_data"][UnitPrice] =
               JStr(<<"1", "2", "5", "0", ".", "5", "0">>))
    /\ HasStringInput("shipping_delivery", TrackingNumber) =>
         (InputAt("shipping_delivery", TrackingNumber).s =
            <<" ", "$", "1", ",", "2", "5", "0", ".", "5", "0">>
          => shaped["shipping_delivery"][TrackingNumber] =
               JStr(<<"$", "1", ",", "2", "5", "0", ".", "5", "0">>))

\* unit_price "$ 12" with a blank before it: the "$" goes, and so do the
\* blanks on both sides of it.
NumericStrippingWitness ==
  /\ Returned
  /\ HasStringInput("medication_prescription_data", UnitPrice)
  /\ InputAt("medication_prescription_data", UnitPrice).s = <<" ", "$", " ", "1", "2">>
  /\ shaped["medication_prescription_data"][UnitPrice] = JStr(<<"1", "2">>)

\* The tokens of a response that are not whitespace.
NonWs(s) == Without(s, Whitespace)

\* The response is one JSON text, with whitespace around it at most.
IsJsonText(s) == Len(NonWs(s)) = 1 /\ NonWs(s)[1] \in DOMAIN JsonText

\* The response is one JSON text behind a leading fence (with or without the
\* json tag right after it), before a trailing fence, or between both.
IsFencedJsonText(s) ==
  LET core == NonWs(s)
  IN  /\ \E j \in DOMAIN JsonText :
           core \in { <<Fence, j>>, <<Fence, JsonTag, j>>, <<j, Fence>>,
                      <<Fence, j, Fence>>, <<Fence, JsonTag, j, Fence>> }
      /\ \A i \in 1..Len(s) : s[i] = JsonTag => (i > 1 /\ s[i - 1] = Fence)

\* The JSON text of such a response.
JsonTextIn(s) == CHOOSE j \in DOMAIN JsonText : j \in Range(s)

\* The three outcomes of raw-output recovery.
Recovered(s) ==
  IF IsJsonText(s) \/ IsFencedJsonText(s) THEN JsonText[JsonTextIn(s)]
  ELSE EmptyDict

(***************************************************************************)
(* C4.  Raw-output recovery never raises and has three outcomes: the raw   *)
(* response parses as JSON and that value is normalized; or it parses      *)
(* once a leading fence (with an optional json tag) and a trailing fence   *)
(* are stripped, and that value is normalized; or the Normalizer gets the  *)
(* empty mapping and every field of the result is "".                      *)
(***************************************************************************)
RecoveryOutcomes ==
  /\ pc \in {"parsed", "shaped", "done"} => parsed = Recovered(raw)
  /\ (Returned /\ ~IsJsonText(raw) /\ ~IsFencedJsonText(raw)) => AllEmpty(shaped)
  /\ (Returned /\ raw = <<Fence, JsonTag, "\n", "{partial}", "\n", Fence>>) =>
       shaped = Normalizer(PartialObject)
  /\ (Returned /\ raw = <<Junk>>) => AllEmpty(shaped)
  /\ pc \in {"invoked", "retry", "parsed", "shaped", "done"} => error = "none"
  /\ pc = "failed" => parses = 0

\* A fenced response, recovered by the second parse and normalized.
RecoveryOutcomesWitness ==
  /\ Returned
  /\ raw = <<Fence, JsonTag, "\n", "{partial}", "\n", Fence>>
  /\ parses = 2
  /\ parsed = PartialObject
  /\ shaped["order_metadata"][OrderDate] =
       JStr(<<"2", "0", "2", "4", "-", "0", "3", "-", "1", "5">>)

(***************************************************************************)
(* C8.  Sniffer threshold and mode: text_ok holds exactly when the average *)
(* number of characters per page is strictly greater than 300 (no pages:   *)
(* average 0).  Text mode is selected when text_ok holds or vision is      *)
(* disabled, vision mode exactly when text_ok is false and vision is not   *)
(* disabled; with vision disabled no page is ever rasterized.              *)
(***************************************************************************)
SnifferAndMode ==
  LET n == IF pages = <<>> THEN 1 ELSE Len(pages)
      whole == Sum(pages) \div n
      part == Sum(pages) % n
      above == whole >= 301 \/ (whole = 300 /\ part > 0)
  IN  /\ pc \notin {"start", "failed"} => (text_ok <=> above)
      /\ pc \in {"msgs", "invoked", "retry", "parsed", "shaped", "done"} =>
           mode = IF above \/ ~use_vision THEN "text" ELSE "vision"
      /\ mode = "vision" => rasterized
      /\ rasterized <=> (pc \notin {"start", "sniffed", "llm"} /\ error # "make_llm"
                         /\ error # "extract_text_with_pymupdf"
                         /\ ~above /\ use_vision)
      /\ ~use_vision => ~rasterized

\* A one-page document of exactly 300 characters goes to vision mode.
SnifferAndModeWitness ==
  /\ pc = "msgs"
  /\ pages = <<300>>
  /\ mode = "vision"
  /\ rasterized

(***************************************************************************)
(* C9, as stated.  With a provider that is neither openai nor vertex,      *)
(* extract_invoice fails with the error make_llm raises, before any call   *)
(* of llm.invoke, and produces no result.                                  *)
(***************************************************************************)
ProviderErrorIsMakeLlms ==
  provider \notin {"openai", "vertex"} =>
    /\ invokes = 0
    /\ shaped = NoResult
    /\ pc \in {"start", "sniffed", "failed"}
    /\ pc = "failed" => error = "make_llm"

(***************************************************************************)
(* C9, amended.  With a provider that is neither openai nor vertex,        *)
(* extract_invoice fails before any call of llm.invoke and any page        *)
(* rasterization and produces no result; the error is the one make_llm     *)
(* raises unless reading the PDF's text has raised already.                *)
(***************************************************************************)
ProviderErrorBeforeInvoke ==
  provider \notin {"openai", "vertex"} =>
    /\ invokes = 0
    /\ ~rasterized
    /\ shaped = NoResult
    /\ pc \in {"start", "sniffed", "failed"}
    /\ pc = "failed" => error \in {"make_llm", "extract_text_with_pymupdf"}
    /\ (pc = "failed" /\ pages # <<>>) => error = "make_llm"

\* make_llm has raised for the provider azure, on a document whose text was read.
ProviderErrorBeforeInvokeWitness ==
  /\ provider = "azure"
  /\ pc = "failed"
  /\ error = "make_llm"
  /\ pages = <<301>>
  /\ invokes = 0

(***************************************************************************)
(* C10.  No re-querying: a run invokes the model provider at most once,    *)
(* before any JSON parsing; a parse failure never leads to another         *)
(* invocation; at most two parse attempts are made on the one response     *)
(* before the empty mapping is used.                                       *)
(***************************************************************************)
NoRequery ==
  /\ invokes <= 1
  /\ parses <= 2
  /\ parses >= 1 => invokes = 1
  /\ pc = "retry" => (parses = 1 /\ invokes = 1)
  /\ pc \in {"parsed", "shaped", "done"} =>
       /\ invokes = 1
       /\ parses = IF IsJsonText(raw) THEN 1 ELSE 2

\* Both parse attempts failed on the one response; the empty mapping was used.
NoRequeryWitness ==
  /\ Returned
  /\ raw = <<Junk>>
  /\ invokes = 1
  /\ parses = 2
  /\ parsed = EmptyDict

=============================================================================
